---- MODULE Spec2Model ----
(***************************************************************************)
(* A model of the SuperPoint ONNX browser pipeline (main.js): main() and   *)
(* the functions it calls.  Scores are fixed-point numbers in units of     *)
(* 1/10000 (0.015 is 150, 0.0151 is 151, 0.9 is 9000); gray values are     *)
(* exact, in units of 1/255000 (1.0 is 255000); durations are integer      *)
(* clock ticks.                                                            *)
(***************************************************************************)
EXTENDS Integers, Sequences, FiniteSets, TLC

VARIABLES
    pc,               \* main's position (the statement it is about to run), or how it ended
    now,              \* performance.now()
    startTime,        \* main's local startTime
    resultsData,      \* main's resultsData object: a function from its keys to its values
    image,            \* the loaded HTMLImageElement: [width, height], or NoValue
    imageData,        \* the ImageData read back from the canvas: [width, height, data], or NoValue
    grayData,         \* rgb2gray's Float32Array, or NoValue
    inputTensor,      \* defineTensorInput's tensor, or NoValue
    heatmapTensor,    \* results['semi']: [dims, data], or NoValue
    fullSizeHeatmap,  \* drawKeypoints' fullSizeHeatmap after the call
    arcs,             \* the circles drawKeypoints drew, in drawing order: <<x, y>> each
    caught,           \* the value caught by main's catch clause, or NoValue
    downloads,        \* the reports downloadJson delivered, in order
    calls,            \* the calls of drawKeypoints that returned, in order: [image, heatmapTensor, arcs]
    escaped           \* the value main's promise rejected with, or NoValue

vars == <<pc, now, startTime, resultsData, image, imageData, grayData, inputTensor,
          heatmapTensor, fullSizeHeatmap, arcs, caught, downloads, calls, escaped>>

NoValue == [none |-> TRUE]

(***************************************************************************)
(* Bounds of the model.                                                    *)
(***************************************************************************)
MaxHot == 2        \* non-zero entries of a heatmap tensor
MaxCells == 2      \* heatmap height and width range over 1..MaxCells
MaxTick == 1       \* clock ticks one step may take
MaxCalls == 3      \* calls of drawKeypoints in a row, where it is called repeatedly
MaxSide == 2       \* width and height, in pixels, of the pixel buffers rgb2gray is tried on

(***************************************************************************)
(* drawKeypoints                                                           *)
(***************************************************************************)
cellSize == 8
confidenceThreshold == 150

subPixelYAsColumn(c) == c % cellSize

\* Math.floor(c / cellSize)
subPixelY(c) == c \div cellSize

subPixelXAsRow(c) == c \div cellSize

\* c % cellSize
subPixelX(c) == c % cellSize

\* (c * heatmapHeight * heatmapWidth) + (y * heatmapWidth) + x
heatmapIndex(c, y, x, heatmapHeight, heatmapWidth) ==
    (c * heatmapHeight * heatmapWidth) + (y * heatmapWidth) + x

\* finalY * image.width + finalX
fullMapIndex(c, y, x, width) ==
    LET finalX == x * cellSize + subPixelX(c)
        finalY == y * cellSize + subPixelY(c)
    IN  finalY * width + finalX

\* fullSizeHeatmap[fullMapIndex] = score, on an array of the given length: a typed array
\* ignores a write past its end
StoreScore(full, length, idx, score) ==
    IF idx < length THEN [full EXCEPT ![idx] = score] ELSE full

\* The body of the innermost loop in iteration k of the three nested loops (c is the
\* outer variable, then y, then x): fullSizeHeatmap[fullMapIndex] = data[heatmapIndex]
UnpackStep(full, length, tensor, width, k) ==
    LET heatmapHeight == tensor.dims[3]
        heatmapWidth == tensor.dims[4]
        c == k \div (heatmapHeight * heatmapWidth)
        y == (k % (heatmapHeight * heatmapWidth)) \div heatmapWidth
        x == k % heatmapWidth
        score == tensor.data[heatmapIndex(c, y, x, heatmapHeight, heatmapWidth)]
    IN  StoreScore(full, length, fullMapIndex(c, y, x, width), score)

\* Iterations lo..hi of the nested loops, in order, on the array full.  The range is
\* halved to keep the evaluation shallow, the first half running before the second; an
\* empty array takes no write, and testing for it first makes TLC evaluate the array
\* before it goes on.
RECURSIVE UnpackRange(_, _, _, _, _, _)
UnpackRange(full, length, tensor, width, lo, hi) ==
    IF full = <<>> \/ lo > hi THEN full
    ELSE IF lo = hi THEN UnpackStep(full, length, tensor, width, lo)
    ELSE LET mid == (lo + hi) \div 2
         IN  UnpackRange(UnpackRange(full, length, tensor, width, lo, mid),
                         length, tensor, width, mid + 1, hi)

UnpackAllChannels(full, length, tensor, width) ==
    UnpackRange(full, length, tensor, width, 0,
                tensor.dims[2] * tensor.dims[3] * tensor.dims[4] - 1)

\* for (let c = 0; c < channelCount - 1; c++) for (y ...) for (x ...): the array after
\* the loops
Unpack(full, length, tensor, width) ==
    UnpackRange(full, length, tensor, width, 0,
                (tensor.dims[2] - 1) * tensor.dims[3] * tensor.dims[4] - 1)

AboveOrAtThreshold(score) == score >= confidenceThreshold

\* fullSizeHeatmap[i] > confidenceThreshold
AboveThreshold(score) == score > confidenceThreshold

ArcAtUnwrapped(i, width) == <<i, i \div width>>

\* The circle drawn for index i: x = i % image.width, y = Math.floor(i / image.width)
ArcAt(i, width) == <<i % width, i \div width>>

\* The circles drawn by iterations lo..hi of the drawing loop, in drawing order (the
\* range is halved to keep the evaluation shallow)
RECURSIVE ScanRange(_, _, _, _)
ScanRange(full, width, lo, hi) ==
    IF lo > hi THEN <<>>
    ELSE IF lo = hi
         THEN (IF AboveThreshold(full[lo]) THEN <<ArcAt(lo, width)>> ELSE <<>>)
    ELSE LET mid == (lo + hi) \div 2
         IN  ScanRange(full, width, lo, mid) \o ScanRange(full, width, mid + 1, hi)

RECURSIVE ScanRangeDown(_, _, _, _)
ScanRangeDown(full, width, lo, hi) ==
    IF lo > hi THEN <<>>
    ELSE IF lo = hi
         THEN (IF AboveThreshold(full[lo]) THEN <<ArcAt(lo, width)>> ELSE <<>>)
    ELSE LET mid == (lo + hi) \div 2
         IN  ScanRangeDown(full, width, mid + 1, hi) \o ScanRangeDown(full, width, lo, mid)

DrawScanDown(full, length, width) == ScanRangeDown(full, width, 0, length - 1)

\* for (let i = 0; i < fullSizeHeatmap.length; i++) if (...) ctx.arc(x, y, ...)
DrawScan(full, length, width) == ScanRange(full, width, 0, length - 1)

\* new Float32Array(n): all zero
NewFloat32Array(n) == [i \in 0 .. n - 1 |-> 0]

BuildOnPreviousHeatmap(img, tensor) ==
    Unpack(IF DOMAIN fullSizeHeatmap = 0 .. img.width * img.height - 1
           THEN fullSizeHeatmap
           ELSE NewFloat32Array(img.width * img.height),
           img.width * img.height, tensor, img.width)

\* drawKeypoints, its first half: const fullSizeHeatmap = new Float32Array(image.width *
\* image.height), filled by the three nested loops
BuildFullSizeHeatmap(img, tensor) ==
    Unpack(NewFloat32Array(img.width * img.height), img.width * img.height, tensor, img.width)

\* drawKeypoints, its second half: the circles drawn from the full-size heatmap
DrawAbove(full, img) == DrawScan(full, img.width * img.height, img.width)

(***************************************************************************)
(* Inputs: images and heatmap tensors.                                     *)
(***************************************************************************)
\* Scores a heatmap entry may hold besides 0: 0.015, 0.0151 and 0.9
HotScores == {confidenceThreshold, confidenceThreshold + 1, 9000}

\* Channel counts of the 'semi' tensor: 65 is the model's, 64 and 66 are off by one
ChannelCounts == {cellSize * cellSize, cellSize * cellSize + 1, cellSize * cellSize + 2}

\* Channels that may hold a non-zero score: 0, 9, 15, 63 and 64
HotChannels == {0, cellSize + 1, 2 * cellSize - 1, cellSize * cellSize - 1, cellSize * cellSize}

HeatmapSides == 1 .. MaxCells

ImageSides == {cellSize * n : n \in 1 .. MaxCells}

Images == [width : ImageSides, height : ImageSides]

RECURSIVE SubsetsUpTo(_, _)
SubsetsUpTo(S, n) ==
    IF n = 0 THEN {{}}
    ELSE LET smaller == SubsetsUpTo(S, n - 1)
         IN  smaller \cup {T \cup {p} : T \in smaller, p \in S}

\* The place of entry [0][c][y][x] in the flat data of a tensor of dims [1, C, H, W]
\* (row-major)
FlatIndex(p, H, W) == (p[1] * H + p[2]) * W + p[3]

\* data with the scores of hot written at their positions
RECURSIVE WithScores(_, _, _, _)
WithScores(data, hot, H, W) ==
    IF DOMAIN hot = {} THEN data
    ELSE LET p == CHOOSE q \in DOMAIN hot : TRUE
         IN  WithScores([data EXCEPT ![FlatIndex(p, H, W)] = hot[p]],
                        [q \in DOMAIN hot \ {p} |-> hot[q]], H, W)

\* An ort.Tensor of dims [1, C, H, W] whose data is 0 except at the positions of hot
MakeTensor(C, H, W, hot) ==
    [dims |-> <<1, C, H, W>>,
     data |-> WithScores([i \in 0 .. C * H * W - 1 |-> 0], hot, H, W)]

HotPositions(C, H, W) ==
    {p \in HotChannels \X (0 .. H - 1) \X (0 .. W - 1) : p[1] < C}

TensorsOfShape(C, H, W) ==
    {MakeTensor(C, H, W, hot) :
        hot \in UNION {[S -> HotScores] : S \in SubsetsUpTo(HotPositions(C, H, W), MaxHot)}}

\* The heatmap tensors whose height and width are in sides
HeatmapTensors(sides) ==
    UNION {TensorsOfShape(d[1], d[2], d[3]) : d \in ChannelCounts \X sides \X sides}

(***************************************************************************)
(* Values thrown, objects and JSON                                         *)
(***************************************************************************)
\* The value of a property that is not there
Undefined == "undefined"

\* What a failing call throws or rejects with: an Error, which has a message, or (from
\* image.onerror = reject) the error Event, which has none
Errors == {[kind |-> "Error", message |-> "failed"]}

ErrorEvents == {[kind |-> "Event"]}

MessageOfMistyped(e) == Undefined

\* e.message
MessageOf(e) == IF "message" \in DOMAIN e THEN e.message ELSE Undefined

\* {}
EmptyObject == [k \in {} |-> Undefined]

\* obj[key] = value
SetKey(obj, key, value) == (key :> value) @@ obj

\* JSON.stringify(data): a key whose value is undefined is left out (of main's
\* resultsData only error can be undefined)
Stringify(data) ==
    IF "error" \in DOMAIN data /\ data["error"] = Undefined
    THEN [k \in DOMAIN data \ {"error"} |-> data[k]]
    ELSE data

\* Object.values(perf).reduce((a, b) => a + b, 0)
RECURSIVE SumValues(_)
SumValues(perf) ==
    IF DOMAIN perf = {} THEN 0
    ELSE LET k == CHOOSE key \in DOMAIN perf : TRUE
         IN  perf[k] + SumValues([key \in DOMAIN perf \ {k} |-> perf[key]])

\* perf.<stage> = performance.now() - startTime, perf being resultsData.performance
RecordDuration(data, stage, t, start) ==
    SetKey(data, "performance", SetKey(data["performance"], stage, t - start))

(***************************************************************************)
(* rgb2gray                                                                *)
(***************************************************************************)
\* const gray = 0.299 * r + 0.587 * g + 0.114 * b, in units of 1/1000
Luminosity(r, g, b) == 299 * r + 587 * g + 114 * b

\* The value 1.0 in the units of a gray value
GrayOne == 255 * 1000

\* gray / 255.0: gray is in units of 1/1000 and the quotient in units of 1/255000 (255
\* of them make 1/1000), in which the division is exact
Normalize(gray) == (gray * (GrayOne \div 1000)) \div 255

GrayIndexUnscaled(i) == i

\* i / 4, i being a multiple of 4
GrayIndex(i) == i \div 4

\* The body of the loop for one i: grayData[i / 4] = gray / 255.0 (a typed array
\* ignores a write past its end)
GrayStep(gray, length, data, i) ==
    LET idx == GrayIndex(i)
        value == Normalize(Luminosity(data[i], data[i + 1], data[i + 2]))
    IN  IF idx < length THEN [gray EXCEPT ![idx] = value] ELSE gray

\* Iterations lo..hi of for (let i = 0; i < data.length; i += 4), i being 4 times the
\* iteration, in order on the array gray (the range is halved to keep the evaluation
\* shallow; an empty array takes no write)
RECURSIVE GrayRange(_, _, _, _, _)
GrayRange(gray, length, data, lo, hi) ==
    IF gray = <<>> \/ lo > hi THEN gray
    ELSE IF lo = hi THEN GrayStep(gray, length, data, 4 * lo)
    ELSE LET mid == (lo + hi) \div 2
         IN  GrayRange(GrayRange(gray, length, data, lo, mid), length, data, mid + 1, hi)

\* rgb2gray(imageData): a new Float32Array(width * height) filled by the loop
rgb2gray(imgData) ==
    GrayRange(NewFloat32Array(imgData.width * imgData.height),
              imgData.width * imgData.height, imgData.data,
              0, (Cardinality(DOMAIN imgData.data) + 3) \div 4 - 1)

\* Pixels, as <<R, G, B, A>>: black, white and a colour whose channels all differ
Black == <<0, 0, 0, 255>>

White == <<255, 255, 255, 255>>

Mixed == <<200, 100, 50, 0>>

Palette == {Black, White, Mixed}

\* The RGBA bytes of an ImageData whose pixel number n (row-major) is pixels[n]
RGBABytes(pixels) ==
    [i \in 0 .. 4 * Cardinality(DOMAIN pixels) - 1 |-> pixels[i \div 4][(i % 4) + 1]]

\* An ImageData of the given size and pixels: getImageData(0, 0, width, height)
ImageDataOf(width, height, pixels) ==
    [width |-> width, height |-> height, data |-> RGBABytes(pixels)]

\* The ImageData of the given size whose pixels all have one colour
UniformImageData(width, height, colour) ==
    ImageDataOf(width, height, [n \in 0 .. width * height - 1 |-> colour])

\* Every ImageData of the given size with pixels of the palette
ImageDatas(width, height) ==
    {ImageDataOf(width, height, pixels) : pixels \in [0 .. width * height - 1 -> Palette]}

(***************************************************************************)
(* Inputs of one run of main                                               *)
(***************************************************************************)
Ticks == 0 .. MaxTick

\* getSystemInfo's result: with userAgentData (the architecture retrieved or not), or
\* the fallback for older browsers
SystemInfos ==
    {[platform |-> "p", brands |-> "b", architecture |-> "a"],
     [platform |-> "p", brands |-> "b", architecture |-> "Could not retrieve"],
     [userAgent |-> "u", platform |-> "p"]}

\* The images a run may load
PipelineImages == {[width |-> cellSize, height |-> cellSize],
                   [width |-> 2 * cellSize, height |-> 2 * cellSize]}

\* The colours of the images a run may load (each image is of one colour)
PipelineColours == {Mixed}

\* The 'semi' tensors a run's inference may return: the spec's round-trip example (0.9
\* at channel 9, cell (1,1) of a 2 by 2 heatmap), an all-zero 1 by 1 heatmap, and a
\* 1 by 1 heatmap with 0.0151 at channel 0
PipelineTensors ==
    {MakeTensor(cellSize * cellSize + 1, 2, 2, (<<cellSize + 1, 1, 1>> :> 9000)),
     MakeTensor(cellSize * cellSize + 1, 1, 1, [p \in {} |-> 0]),
     MakeTensor(cellSize * cellSize + 1, 1, 1, (<<0, 0, 0>> :> confidenceThreshold + 1))}

(***************************************************************************)
(* main                                                                    *)
(***************************************************************************)
Init ==
    /\ pc = "getSystemInfo"
    /\ now = 0
    /\ startTime = 0
    /\ resultsData = EmptyObject
    /\ image = NoValue
    /\ imageData = NoValue
    /\ grayData = NoValue
    /\ inputTensor = NoValue
    /\ heatmapTensor = NoValue
    /\ fullSizeHeatmap = NewFloat32Array(0)
    /\ arcs = <<>>
    /\ caught = NoValue
    /\ downloads = <<>>
    /\ calls = <<>>
    /\ escaped = NoValue

\* A statement of the try block throws e: control moves to the catch clause
Throw(e) ==
    /\ pc' = "catch"
    /\ caught' = e

\* resultsData.systemInfo = await getSystemInfo(); resultsData.runContext = ...;
\* resultsData.performance = {}; let startTime = performance.now().  (The clock is first
\* read here, and never after a statement has thrown: only the time that passes between
\* two readings is modelled.)
GetSystemInfo ==
    /\ pc = "getSystemInfo"
    /\ \E info \in SystemInfos :
         /\ resultsData' =
              SetKey(SetKey(SetKey(resultsData, "systemInfo", info),
                            "runContext", [model |-> "superpoint_quantized.onnx",
                                           image |-> "pinball_1024x1024.jpg"]),
                     "performance", EmptyObject)
         /\ startTime' = now
    /\ pc' = "startSession"
    /\ UNCHANGED <<now, image, imageData, grayData, inputTensor, heatmapTensor,
                   fullSizeHeatmap, arcs, caught, downloads, escaped, calls>>

\* const session = await startSession(modelPath, 'wasm');
\* perf.sessionCreation = performance.now() - startTime; startTime = performance.now()
StartSessionOk ==
    /\ pc = "startSession"
    /\ \E d \in Ticks : now' = now + d
    /\ resultsData' = RecordDuration(resultsData, "sessionCreation", now', startTime)
    /\ startTime' = now'
    /\ pc' = "loadImageElement"
    /\ UNCHANGED <<image, imageData, grayData, inputTensor, heatmapTensor,
                   fullSizeHeatmap, arcs, caught, downloads, escaped, calls>>

\* ort.InferenceSession.create rejects
StartSessionFails ==
    /\ pc = "startSession"
    /\ \E e \in Errors : Throw(e)
    /\ UNCHANGED <<now, startTime, resultsData, image, imageData, grayData, inputTensor,
                   heatmapTensor, fullSizeHeatmap, arcs, downloads, escaped, calls>>

\* const image = await loadImageElement(imageUrl): image.onload resolves;
\* perf.imageLoading = performance.now() - startTime
LoadImageElementOk ==
    /\ pc = "loadImageElement"
    /\ \E d \in Ticks : now' = now + d
    /\ \E img \in PipelineImages : image' = img
    /\ resultsData' = RecordDuration(resultsData, "imageLoading", now', startTime)
    /\ pc' = "imageToImageData"
    /\ UNCHANGED <<startTime, imageData, grayData, inputTensor, heatmapTensor,
                   fullSizeHeatmap, arcs, caught, downloads, escaped, calls>>

\* image.onerror = reject: the promise rejects with the error Event (or new Image()
\* throws an Error)
LoadImageElementFails ==
    /\ pc = "loadImageElement"
    /\ \E e \in ErrorEvents \cup Errors : Throw(e)
    /\ UNCHANGED <<now, startTime, resultsData, image, imageData, grayData, inputTensor,
                   heatmapTensor, fullSizeHeatmap, arcs, downloads, escaped, calls>>

\* const imageData = imageToImageData(image); startTime = performance.now()
ImageToImageDataOk ==
    /\ pc = "imageToImageData"
    /\ \E d \in Ticks : now' = now + d
    /\ \E colour \in PipelineColours :
         imageData' = UniformImageData(image.width, image.height, colour)
    /\ startTime' = now'
    /\ pc' = "rgb2gray"
    /\ UNCHANGED <<resultsData, image, grayData, inputTensor, heatmapTensor,
                   fullSizeHeatmap, arcs, caught, downloads, escaped, calls>>

\* canvas.getContext('2d') returns null, or getImageData throws
ImageToImageDataFails ==
    /\ pc = "imageToImageData"
    /\ \E e \in Errors : Throw(e)
    /\ UNCHANGED <<now, startTime, resultsData, image, imageData, grayData, inputTensor,
                   heatmapTensor, fullSizeHeatmap, arcs, downloads, escaped, calls>>

\* const grayData = rgb2gray(imageData);
\* perf.grayscaleConversion = performance.now() - startTime;
\* const dims = [1, 1, imageData.height, imageData.width]; startTime = performance.now()
Rgb2gray ==
    /\ pc = "rgb2gray"
    /\ \E d \in Ticks : now' = now + d
    /\ grayData' = rgb2gray(imageData)
    /\ resultsData' = RecordDuration(resultsData, "grayscaleConversion", now', startTime)
    /\ startTime' = now'
    /\ pc' = "defineTensorInput"
    /\ UNCHANGED <<image, imageData, inputTensor, heatmapTensor, fullSizeHeatmap, arcs,
                   caught, downloads, escaped, calls>>

\* return new ort.Tensor('float32', grayData, dims)
defineTensorInput(gray, dims) == [type |-> "float32", data |-> gray, dims |-> dims]

\* const inputTensor = defineTensorInput(grayData, dims);
\* perf.tensorCreation = performance.now() - startTime; startTime = performance.now()
DefineTensorInputOk ==
    /\ pc = "defineTensorInput"
    /\ \E d \in Ticks : now' = now + d
    /\ inputTensor' = defineTensorInput(grayData, <<1, 1, imageData.height, imageData.width>>)
    /\ resultsData' = RecordDuration(resultsData, "tensorCreation", now', startTime)
    /\ startTime' = now'
    /\ pc' = "runSession"
    /\ UNCHANGED <<image, imageData, grayData, heatmapTensor, fullSizeHeatmap, arcs,
                   caught, downloads, escaped, calls>>

DefineTensorInputFailsIgnored ==
    /\ pc = "defineTensorInput"
    /\ \E e \in Errors : caught' = e
    /\ pc' = "runSession"
    /\ UNCHANGED <<now, startTime, resultsData, image, imageData, grayData, inputTensor,
                   heatmapTensor, fullSizeHeatmap, arcs, downloads, escaped, calls>>

\* the ort.Tensor constructor throws
DefineTensorInputFails ==
    /\ pc = "defineTensorInput"
    /\ \E e \in Errors : Throw(e)
    /\ UNCHANGED <<now, startTime, resultsData, image, imageData, grayData, inputTensor,
                   heatmapTensor, fullSizeHeatmap, arcs, downloads, escaped, calls>>

\* const results = await runSession(session, inputTensor);
\* perf.inference = performance.now() - startTime; const heatmapTensor = results['semi']
RunSessionOk ==
    /\ pc = "runSession"
    /\ \E d \in Ticks : now' = now + d
    /\ \E semi \in PipelineTensors : heatmapTensor' = semi
    /\ resultsData' = RecordDuration(resultsData, "inference", now', startTime)
    /\ pc' = "totalTime"
    /\ UNCHANGED <<startTime, image, imageData, grayData, inputTensor, fullSizeHeatmap,
                   arcs, caught, downloads, escaped, calls>>

\* session.run rejects
RunSessionFails ==
    /\ pc = "runSession"
    /\ \E e \in Errors : Throw(e)
    /\ UNCHANGED <<now, startTime, resultsData, image, imageData, grayData, inputTensor,
                   heatmapTensor, fullSizeHeatmap, arcs, downloads, escaped, calls>>

TotalOfBeforeInference(perf) == SumValues([k \in DOMAIN perf \ {"inference"} |-> perf[k]])

\* Object.values(perf).reduce((a, b) => a + b, 0)
TotalOf(perf) == SumValues(perf)

\* perf.totalTime = Object.values(perf).reduce((a, b) => a + b, 0)
TotalTime ==
    /\ pc = "totalTime"
    /\ resultsData' = SetKey(resultsData, "performance",
                             SetKey(resultsData["performance"], "totalTime",
                                    TotalOf(resultsData["performance"])))
    /\ pc' = "drawKeypoints"
    /\ UNCHANGED <<now, startTime, image, imageData, grayData, inputTensor, heatmapTensor,
                   fullSizeHeatmap, arcs, caught, downloads, escaped, calls>>

\* drawKeypoints(canvas, image, heatmapTensor) returns.  (main does not read the clock
\* after perf.inference: the time that passes from here on is not modelled.)
DrawKeypointsOk ==
    /\ pc = "drawKeypoints"
    /\ fullSizeHeatmap' = BuildFullSizeHeatmap(image, heatmapTensor)
    /\ arcs' = DrawAbove(fullSizeHeatmap', image)
    /\ calls' = Append(calls, [image |-> image, heatmapTensor |-> heatmapTensor,
                                arcs |-> arcs'])
    /\ pc' = "downloadJson"
    /\ UNCHANGED <<now, startTime, resultsData, image, imageData, grayData, inputTensor,
                   heatmapTensor, caught, downloads, escaped>>

\* document.getElementById('output-canvas') is null: canvas.getContext throws before
\* anything is drawn
DrawKeypointsFails ==
    /\ pc = "drawKeypoints"
    /\ \E e \in Errors : Throw(e)
    /\ UNCHANGED <<now, startTime, resultsData, image, imageData, grayData, inputTensor,
                   heatmapTensor, fullSizeHeatmap, arcs, downloads, escaped, calls>>

ReportWithKeypoints(data, filename) ==
    [filename |-> filename, json |-> Stringify(SetKey(data, "keypoints", arcs))]

\* The report downloadJson(data, filename) delivers
Report(data, filename) == [filename |-> filename, json |-> Stringify(data)]

\* downloadJson(resultsData, `performance_${...}.json`) returns, and main with it
DownloadJsonOk ==
    /\ pc = "downloadJson"
    /\ downloads' = Append(downloads, Report(resultsData, "performance"))
    /\ pc' = "returned"
    /\ UNCHANGED <<now, startTime, resultsData, image, imageData, grayData, inputTensor,
                   heatmapTensor, fullSizeHeatmap, arcs, caught, escaped, calls>>

\* downloadJson throws inside the try block (no Blob, no document.body, ...)
DownloadJsonFails ==
    /\ pc = "downloadJson"
    /\ \E e \in Errors : Throw(e)
    /\ UNCHANGED <<now, startTime, resultsData, image, imageData, grayData, inputTensor,
                   heatmapTensor, fullSizeHeatmap, arcs, downloads, escaped, calls>>

CatchOkSilent ==
    /\ pc = "catch"
    /\ resultsData' = SetKey(resultsData, "error", MessageOf(caught))
    /\ pc' = "returned"
    /\ UNCHANGED <<now, startTime, image, imageData, grayData, inputTensor, heatmapTensor,
                   fullSizeHeatmap, arcs, caught, downloads, escaped, calls>>

\* catch (e) { resultsData.error = e.message; downloadJson(resultsData,
\* `performance_error_${...}.json`) } and downloadJson returns
CatchOk ==
    /\ pc = "catch"
    /\ resultsData' = SetKey(resultsData, "error", MessageOf(caught))
    /\ downloads' = Append(downloads, Report(resultsData', "performance_error"))
    /\ pc' = "returned"
    /\ UNCHANGED <<now, startTime, image, imageData, grayData, inputTensor, heatmapTensor,
                   fullSizeHeatmap, arcs, caught, escaped, calls>>

\* downloadJson throws inside the catch clause: nothing catches it, and the promise
\* main returned is rejected
CatchFails ==
    /\ pc = "catch"
    /\ resultsData' = SetKey(resultsData, "error", MessageOf(caught))
    /\ \E e \in Errors : escaped' = e
    /\ pc' = "rejected"
    /\ UNCHANGED <<now, startTime, image, imageData, grayData, inputTensor, heatmapTensor,
                   fullSizeHeatmap, arcs, caught, downloads, calls>>

Next ==
    \/ GetSystemInfo
    \/ StartSessionOk \/ StartSessionFails
    \/ LoadImageElementOk \/ LoadImageElementFails
    \/ ImageToImageDataOk \/ ImageToImageDataFails
    \/ Rgb2gray
    \/ DefineTensorInputOk \/ DefineTensorInputFails
    \/ RunSessionOk \/ RunSessionFails
    \/ TotalTime
    \/ DrawKeypointsOk \/ DrawKeypointsFails
    \/ DownloadJsonOk \/ DownloadJsonFails
    \/ CatchOk \/ CatchFails

Spec == Init /\ [][Next]_vars

(***************************************************************************)
(* The decoder alone: main is about to call drawKeypoints, on any image    *)
(* and any heatmap tensor of the bounded sets.                             *)
(***************************************************************************)
\* resultsData once every stage has run, each in zero ticks
ResultsAfterInference ==
    [systemInfo |-> [userAgent |-> "u", platform |-> "p"],
     runContext |-> [model |-> "superpoint_quantized.onnx", image |-> "pinball_1024x1024.jpg"],
     performance |-> [sessionCreation |-> 0, imageLoading |-> 0, grayscaleConversion |-> 0,
                      tensorCreation |-> 0, inference |-> 0, totalTime |-> 0]]

DecoderInit ==
    /\ pc = "drawKeypoints"
    /\ now = 0
    /\ startTime = 0
    /\ resultsData = ResultsAfterInference
    /\ image \in Images
    /\ imageData = UniformImageData(image.width, image.height, Black)
    /\ grayData = rgb2gray(imageData)
    /\ inputTensor = defineTensorInput(grayData, <<1, 1, image.height, image.width>>)
    /\ heatmapTensor \in HeatmapTensors(HeatmapSides)
    /\ fullSizeHeatmap = NewFloat32Array(0)
    /\ arcs = <<>>
    /\ caught = NoValue
    /\ downloads = <<>>
    /\ calls = <<>>
    /\ escaped = NoValue

DecoderNext == DrawKeypointsOk \/ DrawKeypointsFails

DecoderSpec == DecoderInit /\ [][DecoderNext]_vars

(***************************************************************************)
(* drawKeypoints called repeatedly: after main's call, further calls on    *)
(* the same image with any of a few heatmap tensors, each call finding     *)
(* what the call before it left.                                           *)
(***************************************************************************)
\* The tensors of the repeated calls: those of a run of main; the round-trip example
\* with 0.9 added in its last channel (64), cell (0,1); 64-channel 1 by 1 heatmaps, all
\* zero and with 0.9 in the last channel (63); 66-channel 2 by 2 heatmaps with 0.9 at
\* channel 64, cell (0,1), without and with 0.9 in the last channel (65), cell (1,0)
RepeatTensors ==
    PipelineTensors \cup
    {MakeTensor(cellSize * cellSize + 1, 2, 2,
                (<<cellSize + 1, 1, 1>> :> 9000) @@ (<<cellSize * cellSize, 0, 1>> :> 9000)),
     MakeTensor(cellSize * cellSize, 1, 1, [p \in {} |-> 0]),
     MakeTensor(cellSize * cellSize, 1, 1, (<<cellSize * cellSize - 1, 0, 0>> :> 9000)),
     MakeTensor(cellSize * cellSize + 2, 2, 2, (<<cellSize * cellSize, 0, 1>> :> 9000)),
     MakeTensor(cellSize * cellSize + 2, 2, 2,
                (<<cellSize * cellSize, 0, 1>> :> 9000)
                @@ (<<cellSize * cellSize + 1, 1, 0>> :> 9000))}

RepeatInit ==
    /\ pc = "drawKeypoints"
    /\ now = 0
    /\ startTime = 0
    /\ resultsData = ResultsAfterInference
    /\ image \in PipelineImages
    /\ imageData = UniformImageData(image.width, image.height, Black)
    /\ grayData = rgb2gray(imageData)
    /\ inputTensor = defineTensorInput(grayData, <<1, 1, image.height, image.width>>)
    /\ heatmapTensor \in RepeatTensors
    /\ fullSizeHeatmap = NewFloat32Array(0)
    /\ arcs = <<>>
    /\ caught = NoValue
    /\ downloads = <<>>
    /\ calls = <<>>
    /\ escaped = NoValue

\* drawKeypoints(canvas, image, semi) once more, on the same canvas and image
DrawKeypointsAgain ==
    /\ pc = "downloadJson"
    /\ Len(calls) < MaxCalls
    /\ \E semi \in RepeatTensors :
         /\ heatmapTensor' = semi
         /\ fullSizeHeatmap' = BuildFullSizeHeatmap(image, semi)
         /\ arcs' = DrawAbove(fullSizeHeatmap', image)
         /\ calls' = Append(calls, [image |-> image, heatmapTensor |-> semi, arcs |-> arcs'])
    /\ UNCHANGED <<pc, now, startTime, resultsData, image, imageData, grayData, inputTensor,
                   caught, downloads, escaped>>

RepeatNext == DrawKeypointsOk \/ DrawKeypointsAgain

RepeatSpec == RepeatInit /\ [][RepeatNext]_vars

\* C14: two calls of drawKeypoints on the same heatmap tensor and image size draw the
\* same keypoints in the same order, whatever was decoded between them or before.
C14_Deterministic ==
    \A i, j \in 1 .. Len(calls) :
        (calls[i].heatmapTensor = calls[j].heatmapTensor /\ calls[i].image = calls[j].image)
            => calls[i].arcs = calls[j].arcs

\* Three calls on a 16 by 16 image: the all-zero 1 by 1 heatmap, which leaves most of
\* the surface unwritten, then the round-trip example, then the first again
C14_Witness ==
    /\ Len(calls) = 3
    /\ image.width = 2 * cellSize
    /\ calls[1].heatmapTensor = calls[3].heatmapTensor
    /\ calls[1].heatmapTensor.dims = <<1, 65, 1, 1>>
    /\ calls[1].arcs = <<>>
    /\ calls[2].arcs = << <<9, 9>> >>
    /\ calls[3].arcs = <<>>

\* The two tensors have the same dims and the same entries in every channel but the
\* last
AgreeBelowLastChannel(t, u) ==
    /\ t.dims = u.dims
    /\ \A k \in 0 .. (t.dims[2] - 1) * t.dims[3] * t.dims[4] - 1 : t.data[k] = u.data[k]

\* C15: the last channel (index C - 1) never influences the result: two tensors that
\* agree on channels 0..C-2 and differ only in channel C - 1 decode, for the same
\* image, to identical keypoint lists.
C15_DustbinIgnored ==
    \A i, j \in 1 .. Len(calls) :
        (calls[i].image = calls[j].image
         /\ AgreeBelowLastChannel(calls[i].heatmapTensor, calls[j].heatmapTensor))
            => calls[i].arcs = calls[j].arcs

\* The round-trip example decoded without and with a score of 0.9 in channel 64: the
\* one keypoint (9,9) both times
C15_Witness ==
    /\ Len(calls) >= 2
    /\ calls[1].heatmapTensor.dims = <<1, 65, 2, 2>>
    /\ AgreeBelowLastChannel(calls[1].heatmapTensor, calls[2].heatmapTensor)
    /\ calls[1].heatmapTensor.data[64 * 4 + 1] = 0
    /\ calls[2].heatmapTensor.data[64 * 4 + 1] = 9000
    /\ calls[1].arcs = << <<9, 9>> >>
    /\ calls[2].arcs = << <<9, 9>> >>

(***************************************************************************)
(* Properties of drawKeypoints, checked under DecoderSpec                  *)
(***************************************************************************)
\* drawKeypoints has returned
Decoded == pc = "downloadJson"

ArcSet == {arcs[j] : j \in 1 .. Len(arcs)}

HeatmapChannels == heatmapTensor.dims[2]

HeatmapHeight == heatmapTensor.dims[3]

HeatmapWidth == heatmapTensor.dims[4]

\* C1: a coordinate of the full-resolution surface is drawn as a keypoint if and only
\* if its reconstructed confidence is strictly greater than 0.015: a confidence equal
\* to the threshold is not drawn, every greater one is.
C1_StrictThreshold ==
    \A i \in DOMAIN fullSizeHeatmap :
        (<<i % image.width, i \div image.width>> \in ArcSet) <=> (fullSizeHeatmap[i] > 150)

\* A decoding with one coordinate at exactly 0.015 (not drawn) and one at 0.0151 (drawn)
C1_Witness ==
    /\ Decoded
    /\ \E i, j \in DOMAIN fullSizeHeatmap :
         /\ fullSizeHeatmap[i] = 150
         /\ fullSizeHeatmap[j] = 151
         /\ arcs = << <<j % image.width, j \div image.width>> >>

\* The heatmap has 65 channels and the image is 8 times the heatmap in both directions
ShapesMatch ==
    /\ HeatmapChannels = 65
    /\ image.width = HeatmapWidth * 8
    /\ image.height = HeatmapHeight * 8

\* The spec's round-trip example: H = W = 2, the only non-zero entry 0.9 at channel 9,
\* cell (1,1)
RoundTripExample ==
    /\ heatmapTensor.dims = <<1, 65, 2, 2>>
    /\ \A i \in DOMAIN heatmapTensor.data :
         heatmapTensor.data[i] = IF i = 9 * 4 + 1 * 2 + 1 THEN 9000 ELSE 0
    /\ image = [width |-> 16, height |-> 16]

\* C2: for a heatmap [1,65,H,W] and an image of W*8 by H*8, the keypoints drawn are
\* exactly the (x*8 + c mod 8, y*8 + c div 8) with heatmap[c][y][x] > 0.015, c <= 63,
\* each once; the round-trip example yields the one keypoint (9,9).
C2_ExactKeypoints ==
    (Decoded /\ ShapesMatch) =>
        /\ ArcSet =
             {<<p[3] * 8 + (p[1] % 8), p[2] * 8 + (p[1] \div 8)>> :
                p \in {q \in (0 .. 63) \X (0 .. HeatmapHeight - 1) \X (0 .. HeatmapWidth - 1) :
                         heatmapTensor.data[q[1] * HeatmapHeight * HeatmapWidth
                                            + q[2] * HeatmapWidth + q[3]] > 150}}
        /\ Cardinality(ArcSet) = Len(arcs)
        /\ RoundTripExample => arcs = << <<9, 9>> >>

\* The round-trip example, decoded
C2_Witness ==
    /\ Decoded
    /\ RoundTripExample
    /\ arcs = << <<9, 9>> >>

\* C3 as claimed: when the image's width*height differs from the surface size
\* H*8 by W*8 the tensor implies, decoding fails and draws no keypoint.
C3_SizeMismatchFails ==
    (image.width * image.height # (HeatmapHeight * 8) * (HeatmapWidth * 8)) =>
        (~Decoded /\ arcs = <<>>)

\* C4 as claimed: when the channel count C does not satisfy C - 1 = 64, decoding
\* fails instead of unpacking the channels.
C4_ChannelCountFails ==
    (HeatmapChannels - 1 # 64) => ~Decoded

\* C5: the keypoints are drawn in strictly ascending order of y*width + x.
C5_AscendingOrder ==
    \A j \in 1 .. Len(arcs) - 1 :
        arcs[j][2] * image.width + arcs[j][1] < arcs[j + 1][2] * image.width + arcs[j + 1][1]

\* Two keypoints drawn in the order opposite to the one their scores were unpacked in:
\* channel 0 of cell (1,1) is unpacked before channel 63 of cell (0,0), and drawn after
C5_Witness ==
    /\ Decoded
    /\ ShapesMatch
    /\ HeatmapHeight = 2 /\ HeatmapWidth = 2
    /\ heatmapTensor.data[0 * 4 + 1 * 2 + 1] > 150
    /\ heatmapTensor.data[63 * 4 + 0 * 2 + 0] > 150
    /\ arcs = << <<7, 7>>, <<8, 8>> >>

\* C16: every keypoint drawn satisfies 0 <= x < width and 0 <= y < height of the
\* image, whatever the shape and content of the heatmap tensor, matching the image
\* or not.
C16_KeypointsInBounds ==
    \A j \in 1 .. Len(arcs) :
        /\ 0 <= arcs[j][1] /\ arcs[j][1] < image.width
        /\ 0 <= arcs[j][2] /\ arcs[j][2] < image.height

\* A heatmap 1 high and 2 wide decoded for an image 8 wide and 16 high: the score of
\* channel 63, cell (0,1), whose place on a surface 16 wide would be (15,7), is drawn
\* at (7,8)
C16_Witness ==
    /\ Decoded
    /\ image = [width |-> 8, height |-> 16]
    /\ HeatmapHeight = 1 /\ HeatmapWidth = 2
    /\ heatmapTensor.data[63 * 2 + 0 * 2 + 1] > 150
    /\ arcs = << <<7, 8>> >>

\* The (c, y, x) the unpacking loops run through when C is 65
UnpackedTriples == (0 .. 63) \X (0 .. HeatmapHeight - 1) \X (0 .. HeatmapWidth - 1)

\* The full-resolution index claimed for (c, y, x)
ClaimedIndex(t) ==
    (t[2] * 8 + (t[1] \div 8)) * image.width + t[3] * 8 + (t[1] % 8)

\* C17: when C = 65, width = W*8 and height = H*8, the unpacking writes (c, y, x) at
\* index (y*8 + c div 8)*width + x*8 + c mod 8; distinct triples with c <= 63 get
\* distinct indices, and together all of 0 .. width*height - 1, so every index is
\* written exactly once and holds the score of its triple afterwards.
C17_EveryIndexWrittenOnce ==
    (Decoded /\ ShapesMatch) =>
        /\ \A t \in UnpackedTriples :
             /\ fullMapIndex(t[1], t[2], t[3], image.width) = ClaimedIndex(t)
             /\ fullSizeHeatmap[ClaimedIndex(t)] =
                  heatmapTensor.data[t[1] * HeatmapHeight * HeatmapWidth
                                     + t[2] * HeatmapWidth + t[3]]
        /\ {ClaimedIndex(t) : t \in UnpackedTriples} = 0 .. image.width * image.height - 1
        /\ Cardinality(UnpackedTriples) = image.width * image.height
        /\ {fullMapIndex(t[1], t[2], t[3], image.width) : t \in UnpackedTriples}
             = DOMAIN fullSizeHeatmap

\* A 2 by 1 heatmap of 65 channels with two scores in channels 0..63, decoded for an
\* image of 8 by 16: the two scores are the two non-zero entries of the surface
C17_Witness ==
    /\ Decoded
    /\ ShapesMatch
    /\ HeatmapHeight = 2 /\ HeatmapWidth = 1
    /\ Cardinality({k \in 0 .. 64 * 2 - 1 : heatmapTensor.data[k] # 0}) = 2
    /\ Cardinality({i \in DOMAIN fullSizeHeatmap : fullSizeHeatmap[i] # 0}) = 2

(***************************************************************************)
(* Properties of main, checked under Spec                                  *)
(***************************************************************************)
Reports == {downloads[j] : j \in 1 .. Len(downloads)}

\* A statement of the try block has thrown
StageFailed == caught # NoValue

\* The statement that threw is the call of runSession: the input tensor was made and
\* no output came back
RunSessionFailed == StageFailed /\ inputTensor # NoValue /\ heatmapTensor = NoValue

\* C7 as claimed: whichever step fails, report emission included, main returns to its
\* caller normally: nothing escapes it.
C7_NothingEscapes == pc # "rejected" /\ escaped = NoValue

\* C8 as claimed: after a failure of any stage, the report handed to the sink has an
\* error field holding the failure's message, and the Performance Record with the
\* durations recorded before the failure.
C8_ErrorReportHasMessage ==
    \A r \in Reports :
        r.filename = "performance_error" =>
            /\ "message" \in DOMAIN caught
            /\ "error" \in DOMAIN r.json
            /\ r.json["error"] = caught.message
            /\ "performance" \in DOMAIN r.json
            /\ r.json["performance"] = resultsData["performance"]

\* C9: if runSession fails, no keypoint is drawn, and the report that is emitted has a
\* non-empty error field and a Performance Record with entries for session creation
\* and image loading; when main returns, that report has been emitted.
C9_InferenceFailureReport ==
    RunSessionFailed =>
        /\ arcs = <<>>
        /\ fullSizeHeatmap = <<>>
        /\ \A r \in Reports :
             /\ r.filename = "performance_error"
             /\ "error" \in DOMAIN r.json
             /\ r.json["error"] \notin {"", Undefined}
             /\ "performance" \in DOMAIN r.json
             /\ {"sessionCreation", "imageLoading"} \subseteq DOMAIN r.json["performance"]
        /\ pc = "returned" => Len(downloads) = 1

\* runSession failed and main returned after emitting the error report
C9_Witness ==
    /\ RunSessionFailed
    /\ pc = "returned"
    /\ Len(downloads) = 1
    /\ downloads[1].json["error"] = "failed"

MeasuredStages ==
    {"sessionCreation", "imageLoading", "grayscaleConversion", "tensorCreation", "inference"}

\* perf has the five stage entries and a totalTime equal to their sum
TotalIsSumOfStages(perf) ==
    /\ DOMAIN perf = MeasuredStages \cup {"totalTime"}
    /\ perf["totalTime"] = perf["sessionCreation"] + perf["imageLoading"]
                           + perf["grayscaleConversion"] + perf["tensorCreation"]
                           + perf["inference"]

\* C10: on a run in which every stage succeeds, the Performance Record (in main and in
\* the report emitted) has entries for the five measured stages, and its totalTime is
\* exactly the sum of those five durations.
C10_TotalTime ==
    /\ (~StageFailed /\ pc \in {"drawKeypoints", "downloadJson", "returned"}) =>
          TotalIsSumOfStages(resultsData["performance"])
    /\ \A r \in Reports :
          r.filename = "performance" => TotalIsSumOfStages(r.json["performance"])

\* A successful run whose report is out, with a non-zero total that is less than the
\* time that passed (pixel-buffer extraction took time and is not counted)
C10_Witness ==
    /\ ~StageFailed
    /\ pc = "returned"
    /\ Len(downloads) = 1
    /\ downloads[1].json["performance"]["totalTime"] > 0
    /\ downloads[1].json["performance"]["inference"] > 0
    /\ downloads[1].json["performance"]["totalTime"] < now

(***************************************************************************)
(* The order of the stages of main, checked under Spec                     *)
(***************************************************************************)
\* Stage k of the pipeline has completed: its output is there.  The stages are
\* 1 session creation, 2 image acquisition (the image loaded and its pixels read back),
\* 3 luminance normalization, 4 tensor assembly, 5 inference, 6 heatmap decoding.
StageDone(k) ==
    CASE k = 1 -> /\ "performance" \in DOMAIN resultsData
                  /\ "sessionCreation" \in DOMAIN resultsData["performance"]
      [] k = 2 -> image # NoValue /\ imageData # NoValue
      [] k = 3 -> grayData # NoValue
      [] k = 4 -> inputTensor # NoValue
      [] k = 5 -> heatmapTensor # NoValue
      [] k = 6 -> fullSizeHeatmap # <<>>

StagesDone == {k \in 1 .. 6 : StageDone(k)}

\* The stage main is in, or about to start: 0 before the first, 7 after the last
StageAt ==
    CASE pc = "getSystemInfo" -> 0
      [] pc = "startSession" -> 1
      [] pc \in {"loadImageElement", "imageToImageData"} -> 2
      [] pc = "rgb2gray" -> 3
      [] pc = "defineTensorInput" -> 4
      [] pc = "runSession" -> 5
      [] pc \in {"totalTime", "drawKeypoints"} -> 6
      [] OTHER -> 7

\* While no stage has failed, the stages completed are exactly those before the one
\* main is in; after a failure they are the first few, and main is in none
StagesInOrder ==
    /\ \E n \in 0 .. 6 : StagesDone = 1 .. n
    /\ ~StageFailed => StagesDone = 1 .. (IF StageAt = 0 THEN 0 ELSE StageAt - 1)
    /\ StageFailed => pc \in {"catch", "returned", "rejected"}
    /\ image # NoValue => StageDone(1)

\* One step completes at most one stage, the next in order, and none once a stage
\* has failed
OneStageAtATime ==
    /\ StagesDone' \in {StagesDone, StagesDone \cup {Cardinality(StagesDone) + 1}}
    /\ StageFailed =>
         UNCHANGED <<image, imageData, grayData, inputTensor, heatmapTensor,
                     fullSizeHeatmap, arcs>>

\* C11: the stages run in the order session creation, image acquisition, luminance
\* normalization, tensor assembly, inference, heatmap decoding: a stage starts only
\* when every stage before it has completed, one stage at a time, and no stage is
\* started after a stage has failed.
C11_StrictStageOrder == []StagesInOrder /\ [][OneStageAtATime]_vars

\* Tensor assembly failed after three stages completed, and main returned without
\* running inference or decoding
C11_Witness ==
    /\ StageFailed
    /\ pc = "returned"
    /\ StagesDone = 1 .. 3

(***************************************************************************)
(* The content of the success report, checked under Spec                   *)
(***************************************************************************)
\* The keys of the report that hold the diagnostic data and the timings
DiagnosticKeys == {"systemInfo", "runContext", "performance"}

SuccessReports == {r \in Reports : r.filename = "performance"}

\* C12 as claimed: on a successful run the report handed to the sink contains, next
\* to the timing and diagnostic data, the keypoint list the decoder produced.
C12_ReportHasKeypoints ==
    \A r \in SuccessReports :
        \E k \in DOMAIN r.json \ DiagnosticKeys : r.json[k] = arcs

\* C12 as amended: on a successful run the report handed to the sink contains the
\* diagnostic data (system info, run context) and the Performance Record with the five
\* stage durations and their total, and nothing else: the keypoints the decoder
\* produced are drawn, and are not part of the report.
C12_ReportWithoutKeypoints ==
    \A r \in SuccessReports :
        /\ DOMAIN r.json = DiagnosticKeys
        /\ r.json["systemInfo"] \in SystemInfos
        /\ r.json["runContext"] = [model |-> "superpoint_quantized.onnx",
                                   image |-> "pinball_1024x1024.jpg"]
        /\ DOMAIN r.json["performance"] = MeasuredStages \cup {"totalTime"}

\* A successful run that drew a keypoint and emitted its report
C12_Witness ==
    /\ pc = "returned"
    /\ ~StageFailed
    /\ arcs # <<>>
    /\ SuccessReports # {}

(***************************************************************************)
(* rgb2gray alone: main is about to call rgb2gray, on any pixel buffer of  *)
(* up to MaxSide by MaxSide pixels of the palette.                         *)
(***************************************************************************)
\* resultsData once the session is created and the image loaded, each in zero ticks
ResultsAfterImageLoading ==
    [systemInfo |-> [userAgent |-> "u", platform |-> "p"],
     runContext |-> [model |-> "superpoint_quantized.onnx", image |-> "pinball_1024x1024.jpg"],
     performance |-> [sessionCreation |-> 0, imageLoading |-> 0]]

GrayInit ==
    /\ pc = "rgb2gray"
    /\ now = 0
    /\ startTime = 0
    /\ resultsData = ResultsAfterImageLoading
    /\ image \in [width : 1 .. MaxSide, height : 1 .. MaxSide]
    /\ imageData \in ImageDatas(image.width, image.height)
    /\ grayData = NoValue
    /\ inputTensor = NoValue
    /\ heatmapTensor = NoValue
    /\ fullSizeHeatmap = NewFloat32Array(0)
    /\ arcs = <<>>
    /\ caught = NoValue
    /\ downloads = <<>>
    /\ calls = <<>>
    /\ escaped = NoValue

GrayNext == Rgb2gray

GraySpec == GrayInit /\ [][GrayNext]_vars

\* Channel k (0 red, 1 green, 2 blue) of pixel (x, y) of the pixel buffer
Channel(x, y, k) == imageData.data[4 * (y * imageData.width + x) + k]

\* rgb2gray has returned
Converted == pc = "defineTensorInput"

PixelXs == 0 .. imageData.width - 1

PixelYs == 0 .. imageData.height - 1

\* C13: every value rgb2gray produces is (0.299*R + 0.587*G + 0.114*B)/255 of its
\* pixel and lies in [0,1]; an all-black image gives all zeros and an all-white image
\* all ones; the output has exactly width*height entries, pixel (x,y) at index
\* y*width + x.  (Values in units of 1/255000: the value (0.299*R + 0.587*G +
\* 0.114*B)/255 is 299*R + 587*G + 114*B of them, and 1 is 255000.)
C13_GrayValues ==
    Converted =>
        /\ DOMAIN grayData = 0 .. imageData.width * imageData.height - 1
        /\ \A x \in PixelXs, y \in PixelYs :
             /\ grayData[y * imageData.width + x] =
                  299 * Channel(x, y, 0) + 587 * Channel(x, y, 1) + 114 * Channel(x, y, 2)
             /\ grayData[y * imageData.width + x] >= 0
             /\ grayData[y * imageData.width + x] <= 255000
        /\ (\A x \in PixelXs, y \in PixelYs, k \in 0 .. 2 : Channel(x, y, k) = 0) =>
              \A i \in DOMAIN grayData : grayData[i] = 0
        /\ (\A x \in PixelXs, y \in PixelYs, k \in 0 .. 2 : Channel(x, y, k) = 255) =>
              \A i \in DOMAIN grayData : grayData[i] = 255000

\* A buffer of 2 by 2 pixels converted: black and the mixed colour in the first row,
\* white and black in the second
C13_Witness ==
    /\ Converted
    /\ imageData.width = 2 /\ imageData.height = 2
    /\ imageData.data[4] = 200 /\ imageData.data[8] = 255
    /\ grayData[0] = 0
    /\ grayData[1] = 124200
    /\ grayData[2] = 255000
    /\ grayData[3] = 0

(***************************************************************************)
(* The number of reports of one run, checked under Spec                    *)
(***************************************************************************)
\* C18: a run of main that ends without the sink failing in the catch clause has
\* handed exactly one report to downloadJson: the success report, without an error
\* field, when every stage and the decoding succeeded, and otherwise one error report;
\* no run hands over two reports, and none is handed over before the run's last step.
C18_ExactlyOneReport ==
    /\ Len(downloads) <= 1
    /\ pc # "returned" => downloads = <<>>
    /\ pc = "returned" =>
         /\ Len(downloads) = 1
         /\ ~StageFailed =>
              /\ StagesDone = 1 .. 6
              /\ downloads[1].filename = "performance"
              /\ "error" \notin DOMAIN downloads[1].json
         /\ StageFailed => downloads[1].filename = "performance_error"

\* The decoding failed after the five stages before it, and main returned with its
\* one report, the error report
C18_Witness ==
    /\ pc = "returned"
    /\ StageFailed
    /\ StagesDone = 1 .. 5
    /\ Len(downloads) = 1
    /\ downloads[1].filename = "performance_error"
    /\ downloads[1].json["error"] = "failed"

====
